---------------------------- MODULE Spec2Model ----------------------------
(***************************************************************************)
(* Configuration resolution of the config crate: ConfigBuilder::build      *)
(* (src/config/src/lib.rs) and the rc-file loader it calls                 *)
(* (src/config/src/ripgrep_config.rs).                                     *)
(*                                                                         *)
(* A byte is a one-character string; a token (OsString) and a file are     *)
(* sequences of bytes.  The argument matcher the crate drives (clap 2,     *)
(* App/Arg/ArgMatches) is modelled for the arguments create_matcher        *)
(* builds: long options only, no positionals, no subcommands, and the help *)
(* and version flags the matcher adds itself.                              *)
(***************************************************************************)
EXTENDS Naturals, Sequences, FiniteSets

(***************************************************************************)
(* Bounds of the explored inputs.                                          *)
(***************************************************************************)
\* real invocation tokens after the program name
MaxInv == 3
\* lines of a config file built from ConfigLines
MaxLines == 3
\* bytes of a config file built from FileBytes
MaxBytes == 3
\* lines of a config file built from OddLines
MaxOddLines == 2
\* real invocation tokens of an invocation built from EqTokens
MaxEqInv == 2
\* lines of a config file built from EqLines
MaxEqLines == 2

(***************************************************************************)
(* Bytes.                                                                  *)
(***************************************************************************)
LF == "\n"
CR == "\r"
TAB == "\t"
\* form feed (0x0C) and vertical tab (0x0B)
FF == "\f"
VT == "x0B"
SP == " "
HASH == "#"
EQ == "="
DASH == "-"
\* a byte that is no part of any UTF-8 text (0xFF)
BadByte == "xFF"

\* the bytes 0x80..0xFF are written "x80".."xFF"; every other byte is ASCII
Bytes80To8F ==
    {"x80", "x81", "x82", "x83", "x84", "x85", "x86", "x87", "x88", "x89",
     "x8A", "x8B", "x8C", "x8D", "x8E", "x8F"}
Bytes90To9F ==
    {"x90", "x91", "x92", "x93", "x94", "x95", "x96", "x97", "x98", "x99",
     "x9A", "x9B", "x9C", "x9D", "x9E", "x9F"}
BytesA0ToBF ==
    {"xA0", "xA1", "xA2", "xA3", "xA4", "xA5", "xA6", "xA7", "xA8", "xA9",
     "xAA", "xAB", "xAC", "xAD", "xAE", "xAF", "xB0", "xB1", "xB2", "xB3",
     "xB4", "xB5", "xB6", "xB7", "xB8", "xB9", "xBA", "xBB", "xBC", "xBD",
     "xBE", "xBF"}
BytesC2ToDF ==
    {"xC2", "xC3", "xC4", "xC5", "xC6", "xC7", "xC8", "xC9", "xCA", "xCB",
     "xCC", "xCD", "xCE", "xCF", "xD0", "xD1", "xD2", "xD3", "xD4", "xD5",
     "xD6", "xD7", "xD8", "xD9", "xDA", "xDB", "xDC", "xDD", "xDE", "xDF"}
BytesE1ToEC ==
    {"xE1", "xE2", "xE3", "xE4", "xE5", "xE6", "xE7", "xE8", "xE9", "xEA",
     "xEB", "xEC"}
BytesEEToEF == {"xEE", "xEF"}
BytesF1ToF3 == {"xF1", "xF2", "xF3"}
\* the bytes that never occur in UTF-8
BytesNeverUtf8 ==
    {"xC0", "xC1", "xF5", "xF6", "xF7", "xF8", "xF9", "xFA", "xFB", "xFC",
     "xFD", "xFE", "xFF"}

HighBytes ==
    {"x80", "x81", "x82", "x83", "x84", "x85", "x86", "x87", "x88", "x89",
     "x8A", "x8B", "x8C", "x8D", "x8E", "x8F", "x90", "x91", "x92", "x93",
     "x94", "x95", "x96", "x97", "x98", "x99", "x9A", "x9B", "x9C", "x9D",
     "x9E", "x9F", "xA0", "xA1", "xA2", "xA3", "xA4", "xA5", "xA6", "xA7",
     "xA8", "xA9", "xAA", "xAB", "xAC", "xAD", "xAE", "xAF", "xB0", "xB1",
     "xB2", "xB3", "xB4", "xB5", "xB6", "xB7", "xB8", "xB9", "xBA", "xBB",
     "xBC", "xBD", "xBE", "xBF", "xC0", "xC1", "xC2", "xC3", "xC4", "xC5",
     "xC6", "xC7", "xC8", "xC9", "xCA", "xCB", "xCC", "xCD", "xCE", "xCF",
     "xD0", "xD1", "xD2", "xD3", "xD4", "xD5", "xD6", "xD7", "xD8", "xD9",
     "xDA", "xDB", "xDC", "xDD", "xDE", "xDF", "xE0", "xE1", "xE2", "xE3",
     "xE4", "xE5", "xE6", "xE7", "xE8", "xE9", "xEA", "xEB", "xEC", "xED",
     "xEE", "xEF", "xF0", "xF1", "xF2", "xF3", "xF4", "xF5", "xF6", "xF7",
     "xF8", "xF9", "xFA", "xFB", "xFC", "xFD", "xFE", "xFF"}

ContinuationBytes == Bytes80To8F \cup Bytes90To9F \cup BytesA0ToBF

\* the length of the UTF-8 encoded character that starts at place i of text;
\* 0 when none starts there (core::str::from_utf8's validation)
Utf8CharLen(text, i) ==
    LET n == Len(text)
        b1 == text[i]
        cont(j) == j <= n /\ text[j] \in ContinuationBytes
        among(j, S) == j <= n /\ text[j] \in S
    IN IF b1 \notin HighBytes THEN 1
       ELSE IF b1 \in BytesC2ToDF THEN (IF cont(i + 1) THEN 2 ELSE 0)
       ELSE IF b1 = "xE0"
            THEN (IF among(i + 1, BytesA0ToBF) /\ cont(i + 2) THEN 3 ELSE 0)
       ELSE IF b1 \in BytesE1ToEC \cup BytesEEToEF
            THEN (IF cont(i + 1) /\ cont(i + 2) THEN 3 ELSE 0)
       ELSE IF b1 = "xED"
            THEN (IF among(i + 1, Bytes80To8F \cup Bytes90To9F) /\ cont(i + 2)
                  THEN 3 ELSE 0)
       ELSE IF b1 = "xF0"
            THEN (IF among(i + 1, Bytes90To9F \cup BytesA0ToBF)
                     /\ cont(i + 2) /\ cont(i + 3)
                  THEN 4 ELSE 0)
       ELSE IF b1 \in BytesF1ToF3
            THEN (IF cont(i + 1) /\ cont(i + 2) /\ cont(i + 3) THEN 4 ELSE 0)
       ELSE IF b1 = "xF4"
            THEN (IF among(i + 1, Bytes80To8F) /\ cont(i + 2) /\ cont(i + 3)
                  THEN 4 ELSE 0)
       ELSE 0

\* whether the places i to e of text hold whole UTF-8 characters
RECURSIVE IsUtf8Span(_, _, _)
IsUtf8Span(text, i, e) ==
    IF i > e THEN TRUE
    ELSE LET k == Utf8CharLen(text, i)
         IN k # 0 /\ i + k - 1 <= e /\ IsUtf8Span(text, i + k, e)

\* core::str::from_utf8(text).is_ok()
IsUtf8(text) == IsUtf8Span(text, 1, Len(text))

\* the characters of the Unicode property White_Space in UTF-8, which bstr's
\* ByteSlice::trim strips: U+0009..U+000D, U+0020, U+0085, U+00A0, U+1680,
\* U+2000..U+200A, U+2028, U+2029, U+202F, U+205F, U+3000
White_Space ==
    {<<TAB>>, <<LF>>, <<VT>>, <<FF>>, <<CR>>, <<SP>>,
     <<"xC2", "x85">>, <<"xC2", "xA0">>, <<"xE1", "x9A", "x80">>,
     <<"xE2", "x80", "xA8">>, <<"xE2", "x80", "xA9">>, <<"xE2", "x80", "xAF">>,
     <<"xE2", "x81", "x9F">>, <<"xE3", "x80", "x80">>}
    \cup {<<"xE2", "x80", b>> :
              b \in {"x80", "x81", "x82", "x83", "x84", "x85", "x86", "x87",
                     "x88", "x89", "x8A"}}

IsWhitespace(c) == c \in White_Space

\* the bytes a White_Space character starts with, ends with
WhiteFirstBytes == {c[1] : c \in White_Space}
WhiteLastBytes == {c[Len(c)] : c \in White_Space}

\* whether text starts, ends with the bytes of c
StartsWith(text, c) == Len(c) <= Len(text) /\ SubSeq(text, 1, Len(c)) = c
EndsWith(text, c) ==
    Len(c) <= Len(text) /\ SubSeq(text, Len(text) - Len(c) + 1, Len(text)) = c

Str_testparam == <<"t", "e", "s", "t", "p", "a", "r", "a", "m">>
Str_testparam2 == <<"t", "e", "s", "t", "p", "a", "r", "a", "m", "2">>
Str_testswitch == <<"t", "e", "s", "t", "s", "w", "i", "t", "c", "h">>
Str_testmultiple == <<"t", "e", "s", "t", "m", "u", "l", "t", "i", "p", "l", "e">>
Str_no_config == <<"n", "o", "-", "c", "o", "n", "f", "i", "g">>
Str_udtarine == <<"u", "d", "t", "a", "r", "i", "n", "e">>
Str_3 == <<"3">>
Str_param1 == <<"p", "a", "r", "a", "m", "1">>
Str_param2 == <<"p", "a", "r", "a", "m", "2">>
Str_fromfile == <<"f", "r", "o", "m", "f", "i", "l", "e">>
Str_fromfile2 == <<"f", "r", "o", "m", "f", "i", "l", "e", "2">>
Str_filename == <<"f", "i", "l", "e", "n", "a", "m", "e">>

\* "--" ++ name: the token that names a long option
Long(name) == <<DASH, DASH>> \o name

\* all sequences over S of length at most n
SeqsUpTo(S, n) == UNION {[1..k -> S] : k \in 0..n}

RECURSIVE Concat(_)
Concat(ss) == IF ss = <<>> THEN <<>> ELSE Head(ss) \o Concat(Tail(ss))

(***************************************************************************)
(* ripgrep_config.rs: the file token loader.                               *)
(***************************************************************************)

\* BufReadExt::for_byte_line_with_terminator: the lines of the stream, each
\* with its terminator; a last line without one is a line too
RECURSIVE ByteLines(_, _)
ByteLines(bytes, cur) ==
    IF bytes = <<>>
    THEN IF cur = <<>> THEN <<>> ELSE <<cur>>
    ELSE IF Head(bytes) = LF
         THEN <<Append(cur, LF)>> \o ByteLines(Tail(bytes), <<>>)
         ELSE ByteLines(Tail(bytes), Append(cur, Head(bytes)))

\* trim that leaves the end of the line as it is
RECURSIVE trim_StartOnly(_)
trim_StartOnly(line) ==
    IF line = <<>> \/ line[1] \notin WhiteFirstBytes THEN line
    ELSE IF \E c \in White_Space : StartsWith(line, c)
    THEN LET c == CHOOSE w \in White_Space : StartsWith(line, w)
         IN trim_StartOnly(SubSeq(line, Len(c) + 1, Len(line)))
    ELSE line

\* ByteSlice::trim_start: the leading White_Space characters go
RECURSIVE trim_start(_)
trim_start(line) ==
    IF line = <<>> \/ line[1] \notin WhiteFirstBytes THEN line
    ELSE IF \E c \in White_Space : StartsWith(line, c)
    THEN LET c == CHOOSE w \in White_Space : StartsWith(line, w)
         IN trim_start(SubSeq(line, Len(c) + 1, Len(line)))
    ELSE line

\* ByteSlice::trim_end: the trailing White_Space characters go
RECURSIVE trim_end(_)
trim_end(line) ==
    IF line = <<>> \/ line[Len(line)] \notin WhiteLastBytes THEN line
    ELSE IF \E c \in White_Space : EndsWith(line, c)
    THEN LET c == CHOOSE w \in White_Space : EndsWith(line, w)
         IN trim_end(SubSeq(line, 1, Len(line) - Len(c)))
    ELSE line

\* ByteSlice::trim
trim(line) == trim_end(trim_start(line))

\* ByteSlice::to_os_str: infallible on Unix, needs valid UTF-8 elsewhere
to_os_str_ok(line, unix) == unix \/ IsUtf8(line)

\* parse_lines that gives up at the first line it cannot decode
RECURSIVE parse_lines_StopAtError(_, _, _, _)
parse_lines_StopAtError(lines, line_number, acc, unix) ==
    IF lines = <<>> THEN acc
    ELSE LET n == line_number + 1
             line == trim(Head(lines))
         IN IF line = <<>> \/ line[1] = HASH
            THEN parse_lines_StopAtError(Tail(lines), n, acc, unix)
            ELSE IF to_os_str_ok(line, unix)
                 THEN parse_lines_StopAtError(Tail(lines), n,
                          [acc EXCEPT !.args = Append(@, line)], unix)
                 ELSE [acc EXCEPT !.errs = Append(@, n)]

\* the closure of parse_reader applied to the lines from line_number + 1 on;
\* acc = [args, errs], an error is the number of its line
RECURSIVE parse_lines(_, _, _, _)
parse_lines(lines, line_number, acc, unix) ==
    IF lines = <<>> THEN acc
    ELSE LET n == line_number + 1
             line == trim(Head(lines))
             next == IF line = <<>> \/ line[1] = HASH THEN acc
                     ELSE IF to_os_str_ok(line, unix)
                          THEN [acc EXCEPT !.args = Append(@, line)]
                          ELSE [acc EXCEPT !.errs = Append(@, n)]
         IN parse_lines(Tail(lines), n, next, unix)

\* parse_reader: rdr yields rdr.bytes and then ends, or fails when
\* rdr.fails; a read that fails makes the `?` of line 104 return Err,
\* whatever lines were read before, and the tokens and line errors
\* gathered so far are dropped
parse_reader(rdr, unix) ==
    IF rdr.fails THEN [ok |-> FALSE, args |-> <<>>, errs |-> <<>>]
    ELSE LET r == parse_lines(ByteLines(rdr.bytes, <<>>), 0,
                              [args |-> <<>>, errs |-> <<>>], unix)
         IN [ok |-> TRUE, args |-> r.args, errs |-> r.errs]

\* what File::open finds at the path: no file that opens, a file that is
\* read to its end, or one, like a directory, that opens and whose read
\* fails behind the bytes it yields
CannotOpen == [opens |-> FALSE, bytes |-> <<>>, fails |-> FALSE]
FileOf(bytes) == [opens |-> TRUE, bytes |-> bytes, fails |-> FALSE]
ReadFails(bytes) == [opens |-> TRUE, bytes |-> bytes, fails |-> TRUE]

\* parse: Err when the file cannot be opened, else what parse_reader gives
parse(file, unix) ==
    IF ~file.opens THEN [ok |-> FALSE, args |-> <<>>, errs |-> <<>>]
    ELSE parse_reader(file, unix)

\* what env::var_os finds under the name config_file_env
EnvValues == {"unset", "empty", "path"}

\* args that goes on to the file when the variable is unset
args_UnsetFallsThrough(env_value, file, unix) ==
    IF env_value = "empty" THEN [args |-> <<>>, errs |-> <<>>]
    ELSE LET r == parse(file, unix)
         IN IF r.ok THEN [args |-> r.args, errs |-> r.errs]
            ELSE [args |-> <<>>, errs |-> <<>>]

\* args: the tokens of the file the environment variable names and the line
\* errors it prints; nothing when the variable is unset or empty or the file
\* cannot be opened or read
args(env_value, file, unix) ==
    IF env_value \in {"unset", "empty"} THEN [args |-> <<>>, errs |-> <<>>]
    ELSE LET r == parse(file, unix)
         IN IF r.ok THEN [args |-> r.args, errs |-> r.errs]
            ELSE [args |-> <<>>, errs |-> <<>>]

(***************************************************************************)
(* Option<T>: None is the empty sequence, Some(x) is <<x>>.                *)
(***************************************************************************)
None == <<>>
Some(x) == <<x>>
IsSome(o) == o # <<>>
Unwrap(o) == o[1]

\* HashMap::insert
Insert(map, key, value) ==
    [k \in DOMAIN map \cup {key} |-> IF k = key THEN value ELSE map[k]]

EmptyMap == [k \in {} |-> None]

(***************************************************************************)
(* lib.rs: the option schema.                                              *)
(***************************************************************************)
ConfigOption(name, default, required, takes_argument, list) ==
    [name |-> name, default |-> default, required |-> required,
     takes_argument |-> takes_argument, list |-> list]

TEST_PARAM == ConfigOption(Str_testparam, Some(Str_udtarine), FALSE, TRUE, FALSE)
TEST_PARAM2 == ConfigOption(Str_testparam2, None, FALSE, TRUE, FALSE)
TEST_SWITCH == ConfigOption(Str_testswitch, None, FALSE, FALSE, FALSE)
TEST_MULTIPLE == ConfigOption(Str_testmultiple, Some(Str_3), FALSE, TRUE, TRUE)
\* the flag maybe_combine_arguments asks for; a caller has to declare it
NO_CONFIG == ConfigOption(Str_no_config, None, FALSE, FALSE, FALSE)

\* a required option without default, of the name of TEST_PARAM
REQUIRED_PARAM == ConfigOption(Str_testparam, None, TRUE, TRUE, FALSE)
\* an option without default that is no list, of the name of TEST_MULTIPLE
SINGLE_PARAM == ConfigOption(Str_testmultiple, None, FALSE, TRUE, FALSE)
\* the no-config flag declared with a default
NO_CONFIG_DEFAULT ==
    ConfigOption(Str_no_config, Some(Str_udtarine), FALSE, FALSE, FALSE)

\* eq as a derived PartialEq would have it
eq_AllFields(self, other) == self = other

\* PartialEq for ConfigOption
eq(self, other) == self.name = other.name

\* Hash for ConfigOption: what is fed to the hasher
hash(self) == self.name

\* HashSet::insert: a value equal to one in the set is not inserted
HashSet_insert(set, value) ==
    IF \E o \in set : hash(o) = hash(value) /\ eq(o, value) THEN set
    ELSE set \cup {value}

\* .iter().cloned().collect() into a HashSet
RECURSIVE collect(_)
collect(list) ==
    IF list = <<>> THEN {}
    ELSE HashSet_insert(collect(SubSeq(list, 1, Len(list) - 1)), list[Len(list)])

\* TestConfig::get_config_description
TestConfig ==
    [options |-> collect(<<TEST_PARAM, TEST_PARAM2, TEST_SWITCH, TEST_MULTIPLE>>)]
\* the same options and the no-config flag
TestConfigNoConfig ==
    [options |-> collect(<<TEST_PARAM, TEST_PARAM2, TEST_SWITCH, TEST_MULTIPLE,
                           NO_CONFIG>>)]
\* a description with a required option, a second option that takes one
\* value, a flag with a default and a list that names testparam twice
StrictConfig ==
    [options |-> collect(<<REQUIRED_PARAM, SINGLE_PARAM, NO_CONFIG_DEFAULT,
                           TEST_PARAM>>)]

Descriptions == {TestConfig, TestConfigNoConfig, StrictConfig}

OptionNames(config) == {o.name : o \in config.options}

(***************************************************************************)
(* The argument matcher (clap 2: App, Arg, ArgMatches).                    *)
(***************************************************************************)

\* create_matcher that makes every option multiple(true)
create_matcher_AllMultiple(config) ==
    {[name |-> o.name,
      long |-> o.name,
      takes_value |-> o.takes_argument,
      required |-> o.required,
      default_value |-> IF IsSome(o.default) /\ o.takes_argument
                        THEN o.default ELSE None,
      multiple |-> TRUE,
      overrides |-> {}] : o \in config.options}

\* create_matcher that registers the default of every option that has one;
\* Arg::default_value makes the argument take a value
create_matcher_DefaultForFlags(config) ==
    {[name |-> o.name,
      long |-> o.name,
      takes_value |-> o.takes_argument \/ IsSome(o.default),
      required |-> o.required,
      default_value |-> o.default,
      multiple |-> o.list,
      overrides |-> IF o.list THEN {} ELSE {o.name}] : o \in config.options}

\* create_matcher that marks no option required
create_matcher_NothingRequired(config) ==
    {[name |-> o.name,
      long |-> o.name,
      takes_value |-> o.takes_argument,
      required |-> FALSE,
      default_value |-> IF IsSome(o.default) /\ o.takes_argument
                        THEN o.default ELSE None,
      multiple |-> o.list,
      overrides |-> IF o.list THEN {} ELSE {o.name}] : o \in config.options}

\* create_matcher that adds a no-config flag of its own
create_matcher_AddsNoConfig(config) ==
    {[name |-> o.name,
      long |-> o.name,
      takes_value |-> o.takes_argument,
      required |-> o.required,
      default_value |-> IF IsSome(o.default) /\ o.takes_argument
                        THEN o.default ELSE None,
      multiple |-> o.list,
      overrides |-> IF o.list THEN {} ELSE {o.name}] : o \in config.options}
    \cup (IF \E o \in config.options : o.name = Str_no_config THEN {}
          ELSE {[name |-> Str_no_config,
                 long |-> Str_no_config,
                 takes_value |-> FALSE,
                 required |-> FALSE,
                 default_value |-> None,
                 multiple |-> FALSE,
                 overrides |-> {Str_no_config}]})

\* create_matcher: one Arg per ConfigOption.  value_name sets takes_value,
\* the later takes_value(option.takes_argument) decides it; a default is
\* registered only for an option that takes an argument; a list option is
\* multiple(true), any other overrides itself
create_matcher(config) ==
    {[name |-> o.name,
      long |-> o.name,
      takes_value |-> o.takes_argument,
      required |-> o.required,
      default_value |-> IF IsSome(o.default) /\ o.takes_argument
                        THEN o.default ELSE None,
      multiple |-> o.list,
      overrides |-> IF o.list THEN {} ELSE {o.name}] : o \in config.options}

FindArg(app, name) == CHOOSE a \in app : a.name = name

\* the long options clap adds by itself unless the caller defines them
BuiltinLongs == {<<"h", "e", "l", "p">>, <<"v", "e", "r", "s", "i", "o", "n">>}

\* Parser::create_help_and_version: the short options that come with the
\* long ones, -h unless an argument is named help and -V unless one is named
\* version
BuiltinShorts(app) ==
    (IF \E a \in app : a.long = <<"h", "e", "l", "p">> THEN {} ELSE {"h"})
    \cup (IF \E a \in app : a.long = <<"v", "e", "r", "s", "i", "o", "n">>
          THEN {} ELSE {"V"})

\* ArgMatcher::inc_occurrence_of
inc_occurrence_of(margs, name) ==
    IF name \in DOMAIN margs
    THEN [margs EXCEPT ![name].occurs = @ + 1]
    ELSE Insert(margs, name, [occurs |-> 1, vals |-> <<>>])

\* ArgMatcher::add_val_to
add_val_to(margs, name, val) ==
    IF name \in DOMAIN margs
    THEN [margs EXCEPT ![name].vals = Append(@, val)]
    ELSE Insert(margs, name, [occurs |-> 0, vals |-> <<val>>])

\* ArgMatcher::handle_self_overrides: of two values the older one goes
handle_self_overrides(margs, a) ==
    IF a.multiple \/ a.name \notin DOMAIN margs THEN margs
    ELSE IF Len(margs[a.name].vals) > 1
         THEN [margs EXCEPT ![a.name] =
                   [occurs |-> 1, vals |-> Tail(margs[a.name].vals)]]
         ELSE IF ~a.takes_value /\ margs[a.name].occurs > 1
              THEN [margs EXCEPT ![a.name].occurs = 1]
              ELSE margs

\* ArgMatcher::process_arg_overrides for the argument parsed last (cache);
\* the arguments of create_matcher override nothing but themselves
process_arg_overrides(app, margs, cache) ==
    IF ~IsSome(cache) THEN margs
    ELSE LET a == FindArg(app, Unwrap(cache))
         IN IF a.name \in a.overrides THEN handle_self_overrides(margs, a)
            ELSE margs

StartsWithDashes(tok) == Len(tok) >= 2 /\ tok[1] = DASH /\ tok[2] = DASH
StartsWithDash(tok) == Len(tok) >= 1 /\ tok[1] = DASH

RECURSIVE trim_left_dashes(_)
trim_left_dashes(tok) ==
    IF tok # <<>> /\ Head(tok) = DASH THEN trim_left_dashes(Tail(tok)) ELSE tok

\* OsStrExt2::trim_left_matches for '='
RECURSIVE trim_left_eqs(_)
trim_left_eqs(tok) ==
    IF tok # <<>> /\ Head(tok) = EQ THEN trim_left_eqs(Tail(tok)) ELSE tok

\* OsStrExt2::contains_byte for '='
contains_eq(tok) == \E i \in 1..Len(tok) : tok[i] = EQ

\* OsStrExt2::split_at_byte for '=': what stands before the first '=' and
\* what stands behind it
split_at_eq(tok) ==
    IF ~contains_eq(tok) THEN <<tok, <<>> >>
    ELSE LET i == CHOOSE k \in 1..Len(tok) :
                      tok[k] = EQ /\ \A j \in 1..(k - 1) : tok[j] # EQ
         IN <<SubSeq(tok, 1, i - 1), SubSeq(tok, i + 1, Len(tok))>>

\* Parser::is_new_arg (no AllowLeadingHyphen, no AllowNegativeNumbers)
is_new_arg(tok, needs) ==
    IF needs.kind = "ValuesDone" THEN TRUE
    ELSE IF StartsWithDashes(tok) THEN TRUE
    ELSE IF StartsWithDash(tok) THEN Len(tok) # 1
    ELSE FALSE

Needs(kind, name) == [kind |-> kind, name |-> name]

ParserStart ==
    [margs |-> EmptyMap, needs |-> Needs("NotFound", <<>>), cache |-> None,
     trailing |-> FALSE, err |-> None, panic |-> FALSE]

Fail(st, kind) == [st EXCEPT !.err = Some(kind)]

\* expect on a token that is no UTF-8
Panic(st) == [st EXCEPT !.panic = TRUE]

\* OsStr::to_str: Some for UTF-8 only
to_str_ok(val) == IsUtf8(val)

\* Parser::add_val_to_arg: a multiple option goes on taking values
add_val_to_arg(app, st, name, val) ==
    [st EXCEPT !.margs = add_val_to(@, name, val),
               !.needs = IF FindArg(app, name).multiple
                         THEN Needs("Opt", name)
                         ELSE Needs("ValuesDone", <<>>)]

\* Parser::parse_opt: val is what stood behind '=' in the token, None when
\* the token had no '='; a value given with '=' may be empty and ends the
\* values of this occurrence
parse_opt(app, st, opt, val) ==
    IF IsSome(val)
    THEN LET st1 == add_val_to_arg(app, st, opt.name, trim_left_eqs(Unwrap(val)))
         IN [st1 EXCEPT !.margs = inc_occurrence_of(@, opt.name),
                        !.needs = Needs("ValuesDone", <<>>),
                        !.cache = Some(opt.name)]
    ELSE [st EXCEPT !.margs = inc_occurrence_of(@, opt.name),
                    !.needs = Needs("Opt", opt.name),
                    !.cache = Some(opt.name)]

\* Parser::parse_flag: what stood behind '=' is dropped
parse_flag(app, st, flag) ==
    [st EXCEPT !.margs = inc_occurrence_of(@, flag.name),
               !.needs = Needs("Flag", <<>>),
               !.cache = Some(flag.name)]

\* Parser::parse_long_arg: the name is what stands between the dashes and
\* the first '='; rest are the tokens behind tok: for a name it does not
\* know the parser takes them all and the name as strings before it builds
\* the error
parse_long_arg(app, st, tok, rest) ==
    LET parts == split_at_eq(trim_left_dashes(tok))
        arg == parts[1]
        val == IF contains_eq(tok) THEN Some(parts[2]) ELSE None
    IN IF \E a \in app : a.takes_value /\ a.long = arg
       THEN parse_opt(app, st, CHOOSE a \in app : a.takes_value /\ a.long = arg,
                      val)
       ELSE IF \E a \in app : ~a.takes_value /\ a.long = arg
       THEN parse_flag(app, st, CHOOSE a \in app : ~a.takes_value /\ a.long = arg)
       ELSE IF arg \in BuiltinLongs THEN Fail(st, "HelpOrVersionDisplayed")
       ELSE IF \A i \in 1..Len(rest) : to_str_ok(rest[i])
       THEN IF to_str_ok(arg) THEN Fail(st, "UnknownArgument") ELSE Panic(st)
       ELSE Panic(st)

\* Parser::parse_short_arg: the characters behind the dash one by one; the
\* first one ends the parse, -h and -V with the help or the version, any
\* other as an argument that is not known
parse_short_arg(app, st, tok) ==
    LET arg == trim_left_dashes(tok)
    IN IF arg[1] \in BuiltinShorts(app)
       THEN Fail(st, "HelpOrVersionDisplayed")
       ELSE Fail(st, "UnknownArgument")

\* one turn of the loop of Parser::get_matches_with
parse_token(app, st, tok, rest) ==
    LET starts_new_arg == is_new_arg(tok, st.needs)
    IN IF st.trailing THEN Fail(st, "UnknownArgument")
       ELSE IF tok = <<DASH, DASH>> /\ starts_new_arg
       THEN [st EXCEPT !.trailing = TRUE]
       ELSE IF starts_new_arg
       THEN LET st1 == [st EXCEPT !.margs =
                            process_arg_overrides(app, st.margs, st.cache)]
            IN IF StartsWithDashes(tok) THEN parse_long_arg(app, st1, tok, rest)
               ELSE IF StartsWithDash(tok) /\ Len(tok) # 1
               THEN parse_short_arg(app, st1, tok)
               \* a positional, of which there is none
               ELSE Fail(st1, "UnknownArgument")
       ELSE IF st.needs.kind = "Opt"
       THEN add_val_to_arg(app, st, st.needs.name, tok)
       \* a positional, of which there is none
       ELSE Fail(st, "UnknownArgument")

RECURSIVE parse_tokens(_, _, _)
parse_tokens(app, st, toks) ==
    IF toks = <<>> \/ IsSome(st.err) \/ st.panic THEN st
    ELSE parse_tokens(app, parse_token(app, st, Head(toks), Tail(toks)),
                      Tail(toks))

\* Parser::add_defaults: the default goes to an option that is absent or
\* has no value
RECURSIVE add_defaults(_, _)
add_defaults(opts, margs) ==
    IF opts = {} THEN margs
    ELSE LET o == CHOOSE x \in opts : TRUE
             m == IF IsSome(o.default_value)
                     /\ (o.name \notin DOMAIN margs \/ margs[o.name].vals = <<>>)
                  THEN add_val_to(margs, o.name, Unwrap(o.default_value))
                  ELSE margs
         IN add_defaults(opts \ {o}, m)

MissingRequired(app, margs) ==
    \E a \in app : a.required /\ a.name \notin DOMAIN margs

\* Validator::validate_matched_args: the errors it can report.  It goes
\* through the matched arguments in the order of a HashMap, which changes
\* from run to run, and reports the first bad one: one that takes a value
\* and has none, else one used more than once that is not multiple
BadMatchedArg(app, margs) ==
    {IF FindArg(app, n).takes_value /\ margs[n].vals = <<>>
     THEN "EmptyValue" ELSE "UnexpectedMultipleUsage" :
        n \in {m \in DOMAIN margs :
                  \/ FindArg(app, m).takes_value /\ margs[m].vals = <<>>
                  \/ margs[m].occurs > 1 /\ ~FindArg(app, m).multiple}}

\* Validator::validate: the matched arguments with the defaults and the
\* errors a run can report, none when the arguments are valid
validate(app, st) ==
    LET margs == add_defaults({a \in app : a.takes_value}, st.margs)
    IN [margs |-> margs,
        errs |-> IF MissingRequired(app, margs) THEN {"MissingRequiredArgument"}
                 ELSE IF st.needs.kind = "Opt" /\ margs[st.needs.name].vals = <<>>
                 THEN {"EmptyValue"}
                 ELSE BadMatchedArg(app, margs)]

\* App::get_matches_from_safe: the first token is the binary name; errs are
\* the errors a run can end with, one of them in each run; panic says that
\* the parser panicked before it had an error
get_matches(app, tokens) ==
    LET st == parse_tokens(app, ParserStart, Tail(tokens))
    IN IF st.panic
       THEN [ok |-> FALSE, panic |-> TRUE, errs |-> {}, margs |-> EmptyMap]
       ELSE IF IsSome(st.err)
       THEN [ok |-> FALSE, panic |-> FALSE, errs |-> {Unwrap(st.err)},
             margs |-> EmptyMap]
       ELSE LET st1 == [st EXCEPT !.margs =
                            process_arg_overrides(app, st.margs, st.cache)]
                st2 == validate(app, st1)
            IN IF st2.errs # {}
               THEN [ok |-> FALSE, panic |-> FALSE, errs |-> st2.errs,
                     margs |-> EmptyMap]
               ELSE [ok |-> TRUE, panic |-> FALSE, errs |-> {},
                     margs |-> st2.margs]

\* ArgMatches::is_present
is_present(matches, name) == name \in DOMAIN matches.margs

\* values_of that takes an argument without values for an absent one
values_of_EmptyIsNone(matches, name) ==
    IF name \notin DOMAIN matches.margs \/ matches.margs[name].vals = <<>>
    THEN [panic |-> FALSE, values |-> None]
    ELSE IF \A i \in 1..Len(matches.margs[name].vals) :
                to_str_ok(matches.margs[name].vals[i])
    THEN [panic |-> FALSE, values |-> Some(matches.margs[name].vals)]
    ELSE [panic |-> TRUE, values |-> None]

\* ArgMatches::values_of and the collect into Vec<&str> behind it: the
\* values as strings; a value that is no UTF-8 makes to_str().expect panic
values_of(matches, name) ==
    IF name \notin DOMAIN matches.margs
    THEN [panic |-> FALSE, values |-> None]
    ELSE IF \A i \in 1..Len(matches.margs[name].vals) :
                to_str_ok(matches.margs[name].vals[i])
    THEN [panic |-> FALSE, values |-> Some(matches.margs[name].vals)]
    ELSE [panic |-> TRUE, values |-> None]

(***************************************************************************)
(* lib.rs: ConfigBuilder.                                                  *)
(***************************************************************************)

\* combine_arguments that leaves the program name in the copy it appends
combine_arguments_NameKept(cmdline, from_file) ==
    IF from_file = <<>> THEN cmdline
    ELSE <<Head(cmdline)>> \o from_file \o cmdline

\* the tail of maybe_combine_arguments: the tokens to match finally
combine_arguments(cmdline, from_file) ==
    IF from_file = <<>> THEN cmdline
    ELSE LET cliargs == cmdline
             first == Head(cliargs)
             rest == Tail(cliargs)
             inserted == <<first>> \o from_file
         IN inserted \o rest

\* extract_values that inserts nothing for an option without values
RECURSIVE extract_values_SkipAbsent(_, _, _)
extract_values_SkipAbsent(options, matches, map) ==
    IF options = {} THEN [panic |-> FALSE, map |-> map]
    ELSE LET config_option == CHOOSE o \in options : TRUE
             parsed_values == values_of(matches, config_option.name)
             inserted == IF IsSome(parsed_values.values)
                         THEN Insert(map, config_option.name,
                                     Some(Unwrap(parsed_values.values)))
                         ELSE map
         IN IF parsed_values.panic THEN [panic |-> TRUE, map |-> EmptyMap]
            ELSE extract_values_SkipAbsent(options \ {config_option}, matches,
                                           inserted)

\* the loop of build over description.options: one insert per option, keyed
\* by the option (that is, by its name); the loop goes through every option,
\* so it panics when the values of any option make values_of panic
RECURSIVE extract_values(_, _, _)
extract_values(options, matches, map) ==
    IF options = {} THEN [panic |-> FALSE, map |-> map]
    ELSE LET config_option == CHOOSE o \in options : TRUE
             parsed_values == values_of(matches, config_option.name)
             inserted == IF IsSome(parsed_values.values)
                         THEN Insert(map, config_option.name,
                                     Some(Unwrap(parsed_values.values)))
                         ELSE Insert(map, config_option.name, None)
             rest == extract_values(options \ {config_option}, matches, inserted)
         IN IF parsed_values.panic \/ rest.panic
            THEN [panic |-> TRUE, map |-> EmptyMap]
            ELSE rest

(***************************************************************************)
(* The explored inputs.                                                    *)
(***************************************************************************)
InvTokens ==
    {Long(Str_testparam), Long(Str_testmultiple), Long(Str_no_config),
     Str_param1, Str_param2}

\* tokens of one dash: the help, the version and a short option nobody
\* declares
ShortTokens == {<<DASH, "h">>, <<DASH, "V">>, <<DASH, "a">>}

\* tokens that are no option: one that begins like the help, the dash alone
PlainTokens == {<<"h">>, <<DASH>>}

\* a long name with '=' and what stands behind it in one token
LongEq(name, val) == Long(name) \o <<EQ>> \o val

\* tokens that give an option its value behind '=', and the no-config flag
\* with a value it has no use for
EqTokens ==
    {LongEq(Str_testparam, Str_param1), LongEq(Str_testmultiple, Str_param1),
     LongEq(Str_no_config, <<"x">>)}

\* invocations that mix the two ways to give a value, give an empty value,
\* put '=' twice, put '=' behind a name nobody declares or behind the help,
\* or hold a byte that is no UTF-8 before or behind '='
MixedInvocations ==
    {<<LongEq(Str_testmultiple, Str_param1), Str_param2>>,
     <<Long(Str_testparam), Str_param2, LongEq(Str_testparam, Str_param1)>>,
     <<LongEq(Str_testparam, Str_param1), Long(Str_testparam)>>,
     <<LongEq(Str_testmultiple, Str_param1), Long(Str_testmultiple), Str_param2>>,
     <<LongEq(Str_testparam, <<>>)>>,
     <<LongEq(Str_testparam, <<EQ>> \o Str_param1)>>,
     <<LongEq(<<"z">>, <<"1">>)>>,
     <<LongEq(<<"z">>, <<BadByte>>)>>,
     <<LongEq(<<BadByte>>, <<"1">>)>>,
     <<LongEq(<<"h", "e", "l", "p">>, <<"x">>)>>,
     <<LongEq(Str_testparam, <<BadByte>>)>>}

\* the invocations: the binary name and up to MaxInv tokens, the
\* invocations that give an option a value that is no UTF-8, those that
\* put a token that is no UTF-8 behind the no-config flag or take one for a
\* long name, those of one token of one dash or of one plain token, those
\* of up to MaxEqInv tokens with '=', and the mixed ones
Commandlines ==
    {<<Str_filename>> \o t : t \in SeqsUpTo(InvTokens, MaxInv)}
    \cup {<<Str_filename, Long(n), <<BadByte>> >> :
              n \in {Str_testparam, Str_testmultiple, Str_no_config}}
    \cup {<<Str_filename, Long(<<BadByte>>)>>}
    \cup {<<Str_filename, t>> : t \in ShortTokens \cup PlainTokens}
    \cup {<<Str_filename>> \o t : t \in SeqsUpTo(EqTokens, MaxEqInv)}
    \cup {<<Str_filename>> \o t : t \in MixedInvocations}

ConfigLines ==
    {Append(Long(Str_testparam), LF), Append(Long(Str_testmultiple), LF),
     Append(Str_fromfile, LF), Append(Str_fromfile2, LF)}

\* "xC2" "xA0" is the no-break space; either byte alone is no UTF-8
FileBytes == {"a", SP, FF, HASH, LF, "xC2", "xA0"}

\* the config lines and a line that is no UTF-8
RawLines == ConfigLines \cup {<<BadByte, LF>>}

\* lines the matcher has no argument for: a long name nobody declares, the
\* help, and a line that is no UTF-8
OddLines == {<<DASH, DASH, "z", LF>>, <<DASH, "h", LF>>, <<BadByte, LF>>}

\* lines that give an option its value behind '=', and lines of a flag
EqLines ==
    {Append(LongEq(Str_testparam, Str_fromfile), LF),
     Append(LongEq(Str_testmultiple, Str_fromfile), LF),
     Append(Long(Str_no_config), LF), Append(Long(Str_testswitch), LF)}

FilesOfLines == {FileOf(Concat(ls)) : ls \in SeqsUpTo(ConfigLines, MaxLines)}
FilesOfOddLines == {FileOf(Concat(ls)) : ls \in SeqsUpTo(OddLines, MaxOddLines)}
FilesOfRawLines == {FileOf(Concat(ls)) : ls \in SeqsUpTo(RawLines, MaxLines)}
FilesOfBytes == {FileOf(bs) : bs \in SeqsUpTo(FileBytes, MaxBytes)}
FilesOfEqLines == {FileOf(Concat(ls)) : ls \in SeqsUpTo(EqLines, MaxEqLines)}

\* files that open and whose read fails: at once, as for a directory, behind
\* a line, and behind the two lines of an option and its value
FilesThatFail ==
    {ReadFails(<<>>), ReadFails(Append(Long(Str_testparam), LF)),
     ReadFails(Append(Long(Str_testparam), LF) \o Append(Str_fromfile, LF))}

\* whether a real token of the invocation holds '='
HasEq(cmdline) == \E i \in 2..Len(cmdline) : contains_eq(cmdline[i])

\* the files explored with an invocation: with every invocation the files
\* whose read fails and the path that cannot be opened.  Without '=' in the
\* invocation:
\* files of config lines with every invocation, files with a line that is
\* no UTF-8, files of odd lines and files of lines with '=' or a flag with
\* the invocations of at most one real token, files of arbitrary bytes with
\* the bare invocation.  With '=' in the invocation: files of lines with
\* '=' or a flag, and files of config lines when it has one real token.
Files(cmdline) ==
    IF HasEq(cmdline)
    THEN FilesOfEqLines \cup {CannotOpen} \cup FilesThatFail
         \cup (IF Len(cmdline) <= 2 THEN FilesOfLines ELSE {})
    ELSE FilesOfLines \cup {CannotOpen} \cup FilesThatFail
         \cup (IF Len(cmdline) <= 2
               THEN FilesOfRawLines \cup FilesOfOddLines \cup FilesOfEqLines
               ELSE {})
         \cup (IF Len(cmdline) <= 1 THEN FilesOfBytes ELSE {})

(***************************************************************************)
(* One call of ConfigBuilder::build.                                       *)
(***************************************************************************)
VARIABLES
    pc,                 \* where build is
    description,        \* T::get_config_description()
    commandline,        \* the argument of build
    matcher,            \* the App of create_matcher
    command_line_args,  \* the matches of the first pass
    env_value,          \* what the loader found in the environment
    file,               \* what the loader found at the path
    args_from_file,     \* the tokens the loader returned
    line_errs,          \* the line errors the loader printed
    final_commandline,  \* what maybe_combine_arguments returned
    matches,            \* the matches of the final pass
    result,             \* the map handed to parse_values
    match_calls,        \* calls of get_matches_from so far
    loader_calls,       \* calls of ripgrep_config::args so far
    exit_err            \* the error get_matches_from ended the process with

vars == <<pc, description, commandline, matcher, command_line_args, env_value,
          file, args_from_file, line_errs, final_commandline, matches, result,
          match_calls, loader_calls, exit_err>>

Init ==
    /\ pc = "start"
    /\ description \in Descriptions
    /\ commandline \in Commandlines
    /\ matcher = {}
    /\ command_line_args = None
    /\ env_value = "unread"
    /\ file = None
    /\ args_from_file = <<>>
    /\ line_errs = <<>>
    /\ final_commandline = None
    /\ matches = None
    /\ result = None
    /\ match_calls = 0
    /\ loader_calls = 0
    /\ exit_err = None

\* build, line 155
CreateMatcher ==
    /\ pc = "start"
    /\ matcher' = create_matcher(description)
    /\ pc' = "first_match"
    /\ UNCHANGED <<description, commandline, command_line_args, env_value, file,
                   args_from_file, line_errs, final_commandline, matches, result,
                   match_calls, loader_calls, exit_err>>

\* maybe_combine_arguments, line 229; get_matches_from ends the process on
\* an error, with one of the errors the matcher can report, unless the
\* parser panics
FirstMatch ==
    /\ pc = "first_match"
    /\ LET m == get_matches(matcher, commandline)
       IN /\ command_line_args' = IF m.ok THEN Some(m) ELSE None
          /\ pc' = IF m.ok THEN "bypass_check"
                   ELSE IF m.panic THEN "panicked" ELSE "exited"
          /\ exit_err' \in IF m.ok \/ m.panic THEN {None}
                           ELSE {Some(e) : e \in m.errs}
    /\ match_calls' = match_calls + 1
    /\ UNCHANGED <<description, commandline, matcher, env_value, file,
                   args_from_file, line_errs, final_commandline, matches, result,
                   loader_calls>>

\* the bypass test asking for a flag of another name
NoConfigPresent_OtherName ==
    is_present(Unwrap(command_line_args), <<"n", "o", "c", "o", "n", "f", "i", "g">>)

NoConfigPresent == is_present(Unwrap(command_line_args), Str_no_config)

\* maybe_combine_arguments, lines 233-234
BypassFile ==
    /\ pc = "bypass_check"
    /\ NoConfigPresent
    /\ args_from_file' = <<>>
    /\ pc' = "combine"
    /\ UNCHANGED <<description, commandline, matcher, command_line_args,
                   env_value, file, line_errs, final_commandline, matches,
                   result, match_calls, loader_calls, exit_err>>

\* LoadFile that does not look at the bypass flag
LoadFile_IgnoresBypass ==
    /\ pc = "bypass_check"
    /\ \E ev \in EnvValues, f \in Files(commandline), unix \in BOOLEAN :
          /\ env_value' = ev
          /\ file' = IF ev = "path" THEN Some(f) ELSE None
          /\ LET r == args(ev, f, unix)
             IN /\ args_from_file' = r.args
                /\ line_errs' = r.errs
    /\ loader_calls' = loader_calls + 1
    /\ pc' = "combine"
    /\ UNCHANGED <<description, commandline, matcher, command_line_args,
                   final_commandline, matches, result, match_calls, exit_err>>

\* LoadFile that ends the process when the file cannot be opened
LoadFile_OpenFailureFatal ==
    /\ pc = "bypass_check"
    /\ ~is_present(Unwrap(command_line_args), Str_no_config)
    /\ \E ev \in EnvValues, f \in Files(commandline), unix \in BOOLEAN :
          /\ env_value' = ev
          /\ file' = IF ev = "path" THEN Some(f) ELSE None
          /\ LET r == args(ev, f, unix)
             IN /\ args_from_file' = r.args
                /\ line_errs' = r.errs
          /\ pc' = IF ev = "path" /\ ~f.opens THEN "exited" ELSE "combine"
    /\ loader_calls' = loader_calls + 1
    /\ UNCHANGED <<description, commandline, matcher, command_line_args,
                   final_commandline, matches, result, match_calls, exit_err>>

\* maybe_combine_arguments, line 236: the loader reads the environment and
\* the file as they are when it runs, on a Unix build or on another one;
\* file records what File::open found, None when nothing was opened
LoadFile ==
    /\ pc = "bypass_check"
    /\ ~NoConfigPresent
    /\ \E ev \in EnvValues, f \in Files(commandline), unix \in BOOLEAN :
          /\ env_value' = ev
          /\ file' = IF ev = "path" THEN Some(f) ELSE None
          /\ LET r == args(ev, f, unix)
             IN /\ args_from_file' = r.args
                /\ line_errs' = r.errs
    /\ loader_calls' = loader_calls + 1
    /\ pc' = "combine"
    /\ UNCHANGED <<description, commandline, matcher, command_line_args,
                   final_commandline, matches, result, match_calls, exit_err>>

\* maybe_combine_arguments, lines 240-261
CombineArguments ==
    /\ pc = "combine"
    /\ final_commandline' = Some(combine_arguments(commandline, args_from_file))
    /\ pc' = "final_match"
    /\ UNCHANGED <<description, commandline, matcher, command_line_args,
                   env_value, file, args_from_file, line_errs, matches, result,
                   match_calls, loader_calls, exit_err>>

\* FinalMatch that goes on to the extraction whatever the matcher says
FinalMatch_IgnoreError ==
    /\ pc = "final_match"
    /\ matches' = Some(get_matches(matcher, Unwrap(final_commandline)))
    /\ pc' = "extract"
    /\ exit_err' = None
    /\ match_calls' = match_calls + 1
    /\ UNCHANGED <<description, commandline, matcher, command_line_args,
                   env_value, file, args_from_file, line_errs, final_commandline,
                   result, loader_calls>>

\* build, line 164
FinalMatch ==
    /\ pc = "final_match"
    /\ LET m == get_matches(matcher, Unwrap(final_commandline))
       IN /\ matches' = IF m.ok THEN Some(m) ELSE None
          /\ pc' = IF m.ok THEN "extract"
                   ELSE IF m.panic THEN "panicked" ELSE "exited"
          /\ exit_err' \in IF m.ok \/ m.panic THEN {None}
                           ELSE {Some(e) : e \in m.errs}
    /\ match_calls' = match_calls + 1
    /\ UNCHANGED <<description, commandline, matcher, command_line_args,
                   env_value, file, args_from_file, line_errs, final_commandline,
                   result, loader_calls>>

\* build, lines 168-185
ExtractValues ==
    /\ pc = "extract"
    /\ LET r == extract_values(description.options, Unwrap(matches), EmptyMap)
       IN /\ result' = IF r.panic THEN None ELSE Some(r.map)
          /\ pc' = IF r.panic THEN "panicked" ELSE "done"
    /\ UNCHANGED <<description, commandline, matcher, command_line_args,
                   env_value, file, args_from_file, line_errs, final_commandline,
                   matches, match_calls, loader_calls, exit_err>>

Next ==
    \/ CreateMatcher
    \/ FirstMatch
    \/ BypassFile
    \/ LoadFile
    \/ CombineArguments
    \/ FinalMatch
    \/ ExtractValues

Spec == Init /\ [][Next]_vars

(***************************************************************************)
(* Notions the properties are stated in, defined on the token lists and    *)
(* on the bytes themselves, not through the parser.                        *)
(***************************************************************************)
Dashed(t) == Len(t) >= 2 /\ t[1] = "-" /\ t[2] = "-"

\* the members of f at the indices idx, by increasing index
RECURSIVE PickInOrder(_, _)
PickInOrder(f, idx) ==
    IF idx = {} THEN <<>>
    ELSE LET i == CHOOSE x \in idx : \A y \in idx : x <= y
         IN <<f[i]>> \o PickInOrder(f, idx \ {i})

Max(S) == CHOOSE x \in S : \A y \in S : y <= x
Min(S) == CHOOSE x \in S : \A y \in S : x <= y

\* a token that is no option token: it does not begin with a dash, or it is
\* the dash alone
Plain(t) == t = <<>> \/ t[1] # "-" \/ Len(t) = 1

\* the place of the first '=' in t, behind the end of t when there is none
EqPlace(t) == Min({i \in 1..Len(t) : t[i] = "="} \cup {Len(t) + 1})

\* the place of the first byte of t that is no dash
NamePlace(t) == Min({i \in 1..Len(t) : t[i] # "-"} \cup {Len(t) + 1})

\* the option a two-dash token names: what stands between the dashes and
\* the first '='
NameIn(t) == SubSeq(t, NamePlace(t), EqPlace(t) - 1)

\* whether a two-dash token carries a value behind '='
Attached(t) == EqPlace(t) <= Len(t)

\* the value a two-dash token carries: what stands behind the '=' signs
\* that follow the name
AttachedValue(t) ==
    LET from == Min({i \in EqPlace(t)..Len(t) : t[i] # "="} \cup {Len(t) + 1})
    IN SubSeq(t, from, Len(t))

\* the places where option name occurs in toks, alone or with '=' and a value
OccurrencesOf(toks, name) ==
    {i \in 1..Len(toks) : Dashed(toks[i]) /\ NameIn(toks[i]) = name}

\* the option token a value token at j stands behind (0: none)
Owner(toks, j) ==
    LET before == {i \in 1..(j - 1) : ~Plain(toks[i])}
    IN IF before = {} THEN 0 ELSE Max(before)

\* the places where toks give option name a value: an occurrence that
\* carries one, or a plain token behind an occurrence that carries none
ValuePlaces(toks, name) ==
    {j \in 1..Len(toks) :
        \/ j \in OccurrencesOf(toks, name) /\ Attached(toks[j])
        \/ /\ Plain(toks[j])
           /\ Owner(toks, j) \in OccurrencesOf(toks, name)
           /\ ~Attached(toks[Owner(toks, j)])}

\* the values given to option name in toks, in order
GivenValues(toks, name) ==
    PickInOrder([j \in 1..Len(toks) |->
                    IF Plain(toks[j]) THEN toks[j] ELSE AttachedValue(toks[j])],
                ValuePlaces(toks, name))

Last(seq) == seq[Len(seq)]

\* the real invocation tokens
InvocationTokens == Tail(commandline)

Loaded == loader_calls > 0
Opened == file # None /\ Unwrap(file).opens
\* the file was opened and read to its end
ReadToEnd == Opened /\ ~Unwrap(file).fails
\* the file was opened and a read of it failed
ReadFailed == Opened /\ Unwrap(file).fails
FileBytesRead == Unwrap(file).bytes
Combined == final_commandline # None

\* the first place from i on, up to e, where no White_Space character starts
RECURSIVE WhiteFrom(_, _, _)
WhiteFrom(bytes, i, e) ==
    LET w == {c \in White_Space :
                 i + Len(c) - 1 <= e /\ SubSeq(bytes, i, i + Len(c) - 1) = c}
    IN IF i > e \/ bytes[i] \notin WhiteFirstBytes \/ w = {} THEN i
       ELSE WhiteFrom(bytes, i + Len(CHOOSE c \in w : TRUE), e)

\* the last place up to j, from s on, where no White_Space character ends
RECURSIVE WhiteBefore(_, _, _)
WhiteBefore(bytes, s, j) ==
    LET w == {c \in White_Space :
                 j - Len(c) + 1 >= s /\ SubSeq(bytes, j - Len(c) + 1, j) = c}
    IN IF j < s \/ bytes[j] \notin WhiteLastBytes \/ w = {} THEN j
       ELSE WhiteBefore(bytes, s, j - Len(CHOOSE c \in w : TRUE))

\* the first byte of every physical line of bytes
LineStarts(bytes) ==
    IF bytes = <<>> THEN {}
    ELSE {1} \cup {i + 1 : i \in {k \in 1..(Len(bytes) - 1) : bytes[k] = "\n"}}

LineEnd(bytes, s) == Min({i \in s..Len(bytes) : bytes[i] = "\n"} \cup {Len(bytes)})

\* the line from s to e without the White_Space characters around it
Trimmed(bytes, s, e) ==
    LET first == WhiteFrom(bytes, s, e)
        last == WhiteBefore(bytes, first, e)
    IN SubSeq(bytes, first, last)

\* for every physical line of bytes: its trimmed text, its 1-based number and
\* whether it is UTF-8 text
LineTable(bytes) ==
    LET starts == LineStarts(bytes)
    IN [s \in starts |->
           LET e == LineEnd(bytes, s)
           IN [text |-> Trimmed(bytes, s, e),
               number |-> Cardinality({t \in starts : t <= s}),
               clean |-> IsUtf8Span(bytes, s, e)]]

\* the lines of a table that are neither blank nor comments
ArgumentLinesOf(table) ==
    {s \in DOMAIN table : table[s].text # <<>> /\ table[s].text[1] # "#"}


\* the tokens of the argument lines that can be turned into an OsString on
\* the build
TokensOf(table, unix) ==
    PickInOrder([s \in DOMAIN table |-> table[s].text],
                {s \in ArgumentLinesOf(table) : unix \/ table[s].clean})

\* the numbers of the argument lines that cannot
ErrorsOf(table, unix) ==
    PickInOrder([s \in DOMAIN table |-> table[s].number],
                {s \in ArgumentLinesOf(table) : ~(unix \/ table[s].clean)})

\* the map build would hand over from the matches of the first pass
FirstPassResult ==
    Some(extract_values(description.options, Unwrap(command_line_args),
                        EmptyMap).map)

ValueOptions == {o \in description.options : o.takes_argument}

(***************************************************************************)
(* Properties.                                                             *)
(***************************************************************************)

\* C1: Override law.  When build has completed, a non-repeatable option that
\* takes a value and occurs both in the file tokens and in the invocation
\* tokens, with its value in the next token or behind '=', holds exactly
\* the value given last on the invocation, and so never the file's value
\* when the two differ; a non-repeatable option given a value only in the
\* file holds the value given last in the file.
C1_Override ==
    pc = "done" =>
        \A o \in ValueOptions : ~o.list =>
            LET inFile == OccurrencesOf(args_from_file, o.name) # {}
                inInv == OccurrencesOf(InvocationTokens, o.name) # {}
                invVals == GivenValues(InvocationTokens, o.name)
                fileVals == GivenValues(args_from_file, o.name)
                stored == Unwrap(result)[o.name]
            IN /\ (inFile /\ inInv) =>
                      /\ invVals # <<>>
                      /\ stored = Some(<<Last(invVals)>>)
                      /\ \A i \in 1..Len(fileVals) :
                             fileVals[i] # Last(invVals) =>
                                 stored # Some(<<fileVals[i]>>)
               /\ (inFile /\ ~inInv /\ fileVals # <<>>) =>
                      stored = Some(<<Last(fileVals)>>)

C1_Witness ==
    /\ pc = "done"
    /\ args_from_file = <<Long(Str_testparam), Str_fromfile>>
    /\ InvocationTokens = <<LongEq(Str_testparam, Str_param1)>>
    /\ Unwrap(result)[Str_testparam] = Some(<<Str_param1>>)

\* C2 as stated: an option that occurs in the file tokens and nowhere in the
\* invocation tokens, the file being loaded, makes build succeed with the
\* value given in the file: for a flag the empty list of a flag that is
\* present, for an option that takes a value the values the file gives it
\* (the last one when it is not repeatable).
C2_FileOnlySucceeds ==
    \A o \in description.options :
        (/\ Loaded
         /\ OccurrencesOf(args_from_file, o.name) # {}
         /\ OccurrencesOf(InvocationTokens, o.name) = {}) =>
            /\ pc \notin {"exited", "panicked"}
            /\ pc = "done" =>
                   LET fileVals == GivenValues(args_from_file, o.name)
                   IN IF o.takes_argument
                      THEN /\ fileVals # <<>>
                           /\ Unwrap(result)[o.name] =
                                  Some(IF o.list THEN fileVals
                                       ELSE <<Last(fileVals)>>)
                      ELSE Unwrap(result)[o.name] = Some(<<>>)

\* C3 as stated: a repeatable option that occurs m times in the file tokens
\* and n times in the invocation tokens resolves to m + n values, the file's
\* first.
C3_OneValuePerOccurrence ==
    pc = "done" =>
        \A o \in ValueOptions : o.list =>
            LET m == Cardinality(OccurrencesOf(args_from_file, o.name))
                n == Cardinality(OccurrencesOf(InvocationTokens, o.name))
                stored == Unwrap(result)[o.name]
            IN m + n >= 1 =>
                   /\ IsSome(stored)
                   /\ Len(Unwrap(stored)) = m + n
                   /\ Unwrap(stored) = GivenValues(args_from_file, o.name)
                                       \o GivenValues(InvocationTokens, o.name)

\* the first pass has accepted an invocation that holds the no-config flag
BypassGiven ==
    /\ command_line_args # None
    /\ OccurrencesOf(InvocationTokens, Str_no_config) # {}

\* C4: Bypass law.  Once the first pass has found the no-config flag, the
\* loader is never called, neither the environment nor a file is read, no
\* file token reaches the final match, the final match is on the invocation
\* tokens alone and cannot fail, and the map handed over is the one of the
\* first pass.
C4_Bypass ==
    BypassGiven =>
        /\ loader_calls = 0
        /\ env_value = "unread"
        /\ file = None
        /\ args_from_file = <<>>
        /\ line_errs = <<>>
        /\ pc # "exited"
        /\ Combined => Unwrap(final_commandline) = commandline
        /\ pc = "done" => result = FirstPassResult

C4_Witness ==
    /\ pc = "done"
    /\ BypassGiven
    /\ InvocationTokens =
           <<LongEq(Str_no_config, <<"x">>), LongEq(Str_testparam, Str_param1)>>
    /\ loader_calls = 0
    /\ Unwrap(result)[Str_no_config] = Some(<<>>)
    /\ Unwrap(result)[Str_testparam] = Some(<<Str_param1>>)

\* C5: Token merge shape.  What maybe_combine_arguments returns is the
\* invocation token list when the loader gave nothing, and else the program
\* name, then every file token in file order, then every other invocation
\* token in invocation order, and no further token.
C5_MergeShape ==
    Combined =>
        LET out == Unwrap(final_commandline)
            f == args_from_file
        IN /\ f = <<>> => out = commandline
           /\ Len(out) = Len(commandline) + Len(f)
           /\ out[1] = commandline[1]
           /\ \A i \in 1..Len(f) : out[1 + i] = f[i]
           /\ \A j \in 2..Len(commandline) : out[Len(f) + j] = commandline[j]

C5_Witness ==
    /\ Combined
    /\ Len(args_from_file) >= 2
    /\ Len(commandline) >= 3
    /\ Unwrap(final_commandline) # commandline

\* C6: No file configured.  With the variable unset or empty the loader
\* returns no token and no error and opens no file, the final match is on the
\* invocation tokens alone and cannot fail, and in both cases the map handed
\* over is the one of the first pass.
C6_NoFileConfigured ==
    env_value \in {"unset", "empty"} =>
        /\ args_from_file = <<>>
        /\ line_errs = <<>>
        /\ file = None
        /\ pc # "exited"
        /\ Combined => Unwrap(final_commandline) = commandline
        /\ pc = "done" => result = FirstPassResult

C6_Witness ==
    /\ pc = "done"
    /\ env_value = "empty"
    /\ InvocationTokens = <<Long(Str_testparam), Str_param1>>
    /\ Unwrap(result)[Str_testparam] = Some(<<Str_param1>>)

\* C7: Line-to-token rule.  For a file read to its end that is UTF-8 text the
\* loader returns, in file order, the physical lines without the White_Space
\* characters around them that are then neither empty nor start with '#',
\* one token per line, and no error; no token is empty, starts with '#' or
\* has a White_Space character at an end; a file of blank and comment lines
\* gives no token.
C7_LineToToken ==
    (Loaded /\ ReadToEnd) =>
        LET table == LineTable(FileBytesRead)
        IN (\A s \in DOMAIN table : table[s].clean) =>
               /\ args_from_file = TokensOf(table, FALSE)
               /\ Len(args_from_file) = Cardinality(ArgumentLinesOf(table))
               /\ line_errs = <<>>
               /\ \A i \in 1..Len(args_from_file) :
                      LET t == args_from_file[i]
                      IN /\ t # <<>>
                         /\ t[1] # "#"
                         /\ WhiteFrom(t, 1, Len(t)) = 1
                         /\ WhiteBefore(t, 1, Len(t)) = Len(t)

C7_Witness ==
    /\ Loaded
    /\ ReadToEnd
    /\ FileBytesRead = <<"a", " ", "a">>
    /\ args_from_file = << <<"a", " ", "a">> >>

\* C8: File access failure is not fatal.  When the path cannot be opened,
\* and also when it opens and a read of it fails behind any number of
\* lines, the loader returns no token, never the tokens of the lines read so
\* far, the final match is on the invocation tokens alone and cannot fail,
\* and the map handed over is the one of the first pass, as with no file
\* configured.
C8_OpenFailure ==
    (env_value = "path" /\ (file = Some(CannotOpen) \/ ReadFailed)) =>
        /\ args_from_file = <<>>
        /\ line_errs = <<>>
        /\ pc # "exited"
        /\ Combined => Unwrap(final_commandline) = commandline
        /\ pc = "done" => result = FirstPassResult

C8_Witness ==
    /\ pc = "done"
    /\ env_value = "path"
    /\ file = Some(CannotOpen)
    /\ InvocationTokens = <<Long(Str_testparam), Str_param1>>

\* C9: Line decode errors are collected.  For a file read to its end the loader
\* returns, for the build it runs on, the tokens of all decodable argument
\* lines in file order and the 1-based physical line number of every
\* argument line that cannot be decoded, lines behind such a line included;
\* these tokens are the ones merged.
C9_LineErrorsCollected ==
    (Loaded /\ Opened) =>
        /\ ReadToEnd =>
               LET table == LineTable(FileBytesRead)
               IN \E unix \in BOOLEAN :
                      /\ args_from_file = TokensOf(table, unix)
                      /\ line_errs = ErrorsOf(table, unix)
        /\ Combined =>
               Unwrap(final_commandline)
                   = <<commandline[1]>> \o args_from_file \o Tail(commandline)

C9_Witness ==
    /\ Combined
    /\ ReadToEnd
    /\ FileBytesRead = <<"xA0", "\n", "a">>
    /\ line_errs = <<1>>
    /\ args_from_file = << <<"a">> >>
    /\ Unwrap(final_commandline) = <<Str_filename, <<"a">> >>

\* C10: The map handed to parse_values has exactly one entry for every
\* option of the description and no other key.
C10_TotalMap ==
    /\ pc = "done" =>
           /\ result # None
           /\ DOMAIN Unwrap(result) = OptionNames(description)
           /\ Cardinality(DOMAIN Unwrap(result)) = Cardinality(description.options)
    /\ pc # "done" => result = None

C10_Witness ==
    /\ pc = "done"
    /\ description = TestConfigNoConfig
    /\ args_from_file # <<>>
    /\ Unwrap(result)[Str_testparam2] = None
    /\ Unwrap(result)[Str_testmultiple] # None

\* the final merged tokens, the program name left out
FinalTokens == Tail(Unwrap(final_commandline))

\* C11: Tri-state shape of every resolved entry.  When build has completed,
\* a flag maps to None when it occurs nowhere in the final merged tokens and
\* to Some(empty list) when it occurs at least once; an option that takes a
\* value maps to None or to Some(list) with at least one element, and with
\* exactly one element when it is not repeatable.
C11_TriState ==
    pc = "done" =>
        \A o \in description.options :
            LET stored == Unwrap(result)[o.name]
                occurs == OccurrencesOf(FinalTokens, o.name) # {}
            IN IF ~o.takes_argument
               THEN /\ ~occurs => stored = None
                    /\ occurs => stored = Some(<<>>)
               ELSE \/ stored = None
                    \/ /\ IsSome(stored)
                       /\ Len(Unwrap(stored)) >= 1
                       /\ ~o.list => Len(Unwrap(stored)) = 1

C11_Witness ==
    /\ pc = "done"
    /\ description = TestConfigNoConfig
    /\ args_from_file = <<Long(Str_testswitch)>>
    /\ FinalTokens = <<Long(Str_testswitch), LongEq(Str_testparam, Str_param1)>>
    /\ Unwrap(result)[Str_testswitch] = Some(<<>>)
    /\ Unwrap(result)[Str_no_config] = None
    /\ Unwrap(result)[Str_testparam2] = None
    /\ Unwrap(result)[Str_testparam] = Some(<<Str_param1>>)

\* C12 as stated: when build has completed, an option that takes a value and
\* occurs nowhere in the final merged tokens holds the one-element list of
\* its default, or None when it has no default; one that occurs at least
\* once holds values it was given only.
C12_DefaultOnlyWhenAbsent ==
    pc = "done" =>
        \A o \in ValueOptions :
            LET stored == Unwrap(result)[o.name]
                given == GivenValues(FinalTokens, o.name)
            IN IF OccurrencesOf(FinalTokens, o.name) = {}
               THEN stored = (IF IsSome(o.default)
                              THEN Some(<<Unwrap(o.default)>>) ELSE None)
               ELSE /\ IsSome(stored)
                    /\ \A i \in 1..Len(Unwrap(stored)) :
                           \E j \in 1..Len(given) : Unwrap(stored)[i] = given[j]

\* whether the matcher accepts the invocation tokens, the merged tokens
FirstPassAccepts == get_matches(matcher, commandline).ok
FinalPassAccepts == get_matches(matcher, Unwrap(final_commandline)).ok
\* whether the matcher panics on them rather than rejecting them
FirstPassPanics == get_matches(matcher, commandline).panic
FinalPassPanics == get_matches(matcher, Unwrap(final_commandline)).panic

\* C13: No partial extraction.  Once the matcher has rejected the tokens of
\* the first pass or of the final pass, also when only tokens of the file
\* make it reject, the call has ended with no map built, and so it has when
\* the matcher panicked on them; the extraction is reached only with the
\* matches of two passes that succeeded.
C13_NoPartialExtraction ==
    /\ (match_calls >= 1 /\ ~FirstPassAccepts) =>
           /\ pc = IF FirstPassPanics THEN "panicked" ELSE "exited"
           /\ result = None /\ matches = None
    /\ (match_calls >= 2 /\ ~FinalPassAccepts) =>
           /\ pc = IF FinalPassPanics THEN "panicked" ELSE "exited"
           /\ result = None /\ matches = None
    /\ (pc \in {"extract", "done"} \/ matches # None \/ result # None) =>
           /\ IsSome(command_line_args) /\ FirstPassAccepts
           /\ IsSome(matches) /\ FinalPassAccepts
           /\ Unwrap(matches).ok

C13_Witness ==
    /\ pc = "exited"
    /\ match_calls = 2
    /\ FirstPassAccepts
    /\ InvocationTokens = <<>>
    /\ args_from_file = <<Str_fromfile>>
    /\ ~FinalPassAccepts
    /\ result = None

\* what build has returned to its caller: None as long as it has not returned
Returned ==
    IF pc = "done" THEN Some([ok |-> TRUE, value |-> Unwrap(result)]) ELSE None

\* C14: Match errors are propagated to the caller as a value.  Once the
\* matcher has reported an error in the first or in the final pass, build
\* has returned that error as its Err result.
C14_MatchErrorReturned ==
    /\ (match_calls >= 1 /\ ~FirstPassAccepts /\ ~FirstPassPanics) =>
           \E e \in get_matches(matcher, commandline).errs :
               Returned = Some([ok |-> FALSE, err |-> e])
    /\ (match_calls >= 2 /\ ~FinalPassAccepts /\ ~FinalPassPanics) =>
           \E e \in get_matches(matcher, Unwrap(final_commandline)).errs :
               Returned = Some([ok |-> FALSE, err |-> e])

\* C15 as stated: when the file gives no token the matches of the first pass
\* are taken and the matcher is not called a second time.
C15_SingleMatch ==
    (pc \in {"extract", "done", "panicked"} /\ args_from_file = <<>>) =>
        /\ match_calls = 1
        /\ matches = command_line_args

\* the phases that can follow a phase
NextPhases(p) ==
    CASE p = "start" -> {"first_match"}
      [] p = "first_match" -> {"bypass_check", "exited", "panicked"}
      [] p = "bypass_check" -> {"combine"}
      [] p = "combine" -> {"final_match"}
      [] p = "final_match" -> {"extract", "exited", "panicked"}
      [] p = "extract" -> {"done", "panicked"}
      [] OTHER -> {}

\* C16: Phase ordering of one resolution.  Every step goes from a phase to
\* the one behind it: schema construction, first match on the invocation
\* tokens, file load or bypass, merge, final match, extraction.  The matcher
\* is built once; the loader is called at most once, behind a first match
\* that succeeded and found no-config absent; the final tokens differ from
\* the invocation tokens only when the loader returned a token; the
\* extraction starts only behind a final match that succeeded.
C16_PhaseOrder ==
    [][/\ pc' \in NextPhases(pc)
       /\ matcher' # matcher => pc = "start"
       /\ match_calls' # match_calls =>
              /\ pc \in {"first_match", "final_match"}
              /\ match_calls' = match_calls + 1
              /\ pc = "first_match" <=> match_calls = 0
       /\ command_line_args' # command_line_args =>
              (pc = "first_match" /\ FirstPassAccepts)
       /\ loader_calls' # loader_calls =>
              /\ pc = "bypass_check"
              /\ loader_calls = 0 /\ loader_calls' = 1
              /\ IsSome(command_line_args)
              /\ OccurrencesOf(InvocationTokens, Str_no_config) = {}
       /\ (args_from_file' # args_from_file \/ file' # file) =>
              loader_calls' # loader_calls
       /\ final_commandline' # final_commandline =>
              /\ pc = "combine"
              /\ final_commandline' # Some(commandline) =>
                     (loader_calls = 1 /\ args_from_file # <<>>)
       /\ pc' = "extract" => (IsSome(matches') /\ FinalPassAccepts)
       /\ result' # result => pc = "extract"]_vars

C16_Witness ==
    /\ pc = "done"
    /\ loader_calls = 1
    /\ match_calls = 2
    /\ args_from_file = <<Long(Str_testparam), Str_fromfile>>
    /\ final_commandline # Some(commandline)
    /\ IsSome(result)

\* the options a caller declares in the explored descriptions
DeclaredOptions ==
    {TEST_PARAM, TEST_PARAM2, TEST_SWITCH, TEST_MULTIPLE, NO_CONFIG,
     REQUIRED_PARAM, SINGLE_PARAM, NO_CONFIG_DEFAULT}

\* C17: Name-only identity of options.  Two options are equal, and feed the
\* hasher alike, exactly when their names are equal, whatever their other
\* fields; the options of the description never hold two options of one
\* name, a declared list that repeats a name keeps one of the two, and the
\* map handed over has one entry per name.
C17_NameIdentity ==
    /\ \A a, b \in DeclaredOptions :
           /\ eq(a, b) <=> a.name = b.name
           /\ hash(a) = hash(b) <=> a.name = b.name
    /\ \A a, b \in description.options : a.name = b.name => a = b
    /\ description = StrictConfig =>
           /\ Cardinality(description.options) = 3
           /\ Cardinality({o \in description.options : o.name = Str_testparam}) = 1
    /\ pc = "done" =>
           Cardinality(DOMAIN Unwrap(result)) = Cardinality(description.options)

C17_Witness ==
    /\ pc = "done"
    /\ description = StrictConfig
    /\ eq(TEST_PARAM, REQUIRED_PARAM) /\ TEST_PARAM # REQUIRED_PARAM
    /\ {TEST_PARAM, REQUIRED_PARAM} \cap description.options = {REQUIRED_PARAM}
    /\ DOMAIN Unwrap(result) = {Str_testparam, Str_testmultiple, Str_no_config}

\* the flags declared with a default
FlagsWithDefault ==
    {o \in description.options : ~o.takes_argument /\ IsSome(o.default)}

\* C18: A default declared on a flag is ignored.  The matcher holds no
\* default for a flag; when build has completed, a flag declared with a
\* default d holds None when it occurs nowhere in the final merged tokens
\* and the empty list when it occurs, and d is no element of any entry of
\* the map handed over.
C18_FlagDefaultIgnored ==
    /\ pc # "start" =>
           \A o \in FlagsWithDefault :
               /\ FindArg(matcher, o.name).default_value = None
               /\ ~FindArg(matcher, o.name).takes_value
    /\ pc = "done" =>
           \A o \in FlagsWithDefault :
               /\ OccurrencesOf(FinalTokens, o.name) = {} =>
                      Unwrap(result)[o.name] = None
               /\ OccurrencesOf(FinalTokens, o.name) # {} =>
                      Unwrap(result)[o.name] = Some(<<>>)
               /\ \A n \in DOMAIN Unwrap(result) :
                      LET stored == Unwrap(result)[n]
                      IN IsSome(stored) =>
                             \A i \in 1..Len(Unwrap(stored)) :
                                 Unwrap(stored)[i] # Unwrap(o.default)

C18_Witness ==
    /\ pc = "done"
    /\ NO_CONFIG_DEFAULT \in description.options
    /\ loader_calls = 1
    /\ FinalTokens = <<LongEq(Str_testparam, Str_param1)>>
    /\ Unwrap(result)[Str_no_config] = None

\* a required option occurs nowhere in the invocation tokens
RequiredMissing ==
    \E o \in description.options :
        o.required /\ OccurrencesOf(InvocationTokens, o.name) = {}

\* C19: First-pass gating.  Nothing of the file is read before the first
\* match; when the invocation tokens alone do not satisfy the matcher built
\* from the whole description, as when a required option is not among
\* them, the call ends at the first pass: the loader is never called and no
\* merged tokens are built, whatever a file would have supplied.
C19_FirstPassGating ==
    /\ pc \in {"start", "first_match"} =>
           /\ loader_calls = 0 /\ match_calls = 0
           /\ env_value = "unread" /\ file = None
           /\ ~Combined
    /\ RequiredMissing =>
           /\ pc \in {"start", "first_match", "exited", "panicked"}
           /\ pc = "panicked" => FirstPassPanics
    /\ ((match_calls >= 1 /\ ~FirstPassAccepts) \/ RequiredMissing) =>
           /\ loader_calls = 0
           /\ env_value = "unread" /\ file = None /\ args_from_file = <<>>
           /\ ~Combined
           /\ match_calls <= 1
           /\ result = None

C19_Witness ==
    /\ pc = "exited"
    /\ description = StrictConfig
    /\ InvocationTokens = <<LongEq(Str_testmultiple, Str_param1)>>
    /\ loader_calls = 0
    /\ ~Combined
    /\ get_matches(matcher, combine_arguments(commandline,
                        <<Long(Str_testparam), Str_fromfile>>)).ok

\* C20: The bypass flag exists only if the caller declares it.  The matcher
\* holds one argument per option of the description and no other; for a
\* description without an option named no-config every call that gets past
\* the first match has called the loader, so none completes without it.
C20_BypassOnlyIfDeclared ==
    /\ pc # "start" =>
           /\ {a.name : a \in matcher} = OptionNames(description)
           /\ Cardinality(matcher) = Cardinality(description.options)
    /\ Str_no_config \notin OptionNames(description) =>
           /\ pc \in {"combine", "final_match", "extract", "done"} =>
                  loader_calls = 1
           /\ (pc \in {"exited", "panicked"} /\ match_calls = 2) =>
                  loader_calls = 1
           /\ OccurrencesOf(InvocationTokens, Str_no_config) # {} =>
                  /\ pc \in {"start", "first_match", "exited", "panicked"}
                  /\ match_calls <= 1

C20_Witness ==
    /\ pc = "done"
    /\ description = TestConfig
    /\ Str_no_config \notin OptionNames(description)
    /\ InvocationTokens = <<Long(Str_testparam), Str_param2>>
    /\ loader_calls = 1
    /\ env_value = "unset"

====
